---- MODULE Spec2Model ----
(***************************************************************************)
(* MetalZone storefront (src/app.py, src/models.py, src/forms.py): cart    *)
(* pricing, coupon validation, checkout, order cancellation, admin status  *)
(* changes and the payment callback, as a state machine over the persisted *)
(* rows (Product, Coupon, Order/OrderItem), the per-browser Flask session  *)
(* (cart, coupon_code) and the position of each request in flight.         *)
(*                                                                         *)
(* Money.  The code keeps money in binary floats.  The model keeps every   *)
(* amount as an exact integer number of 1/10000 rupee (Rupee == 10000 of   *)
(* them, Paisa == 100), so that subtotal * 0.18 and subtotal * value / 100 *)
(* are exact before round(.., 2) is applied to the tax.  Prices are whole  *)
(* paise.                                                                  *)
(*                                                                         *)
(* Requests.  Each user (browser) has at most one request in flight.  A    *)
(* handler that reads rows, computes in Python and writes the computed     *)
(* values back at db.session.commit() is split at the points where another *)
(* request's commit can fall between its reads and its writes: the ORM     *)
(* keeps the attribute values it loaded, and the UPDATE it emits carries   *)
(* the value computed from them.                                           *)
(***************************************************************************)
EXTENDS Integers, Sequences, FiniteSets, TLC

\* ----------------------------------------------------------------- bounds
MaxStock == 2
MaxOrders == 2
MaxTime == 1
MaxQty == 2
MaxRestores == 2

\* ------------------------------------------------------- program constants
TaxRatePercent == 18
FreeShippingRupees == 500
FlatShippingRupees == 50

Rupee == 100 * 100
Paisa == 100
Null == 0 - 1
NoCode == ""

Min(a, b) == IF a <= b THEN a ELSE b
Max(a, b) == IF a >= b THEN a ELSE b

RECURSIVE SumOver(_, _)
SumOver(f, S) ==
  IF S = {} THEN 0
  ELSE LET x == CHOOSE y \in S : TRUE IN f[x] + SumOver(f, S \ {x})

\* ------------------------------------------------------------------ data
Customers == {"u1", "u2"}
Admins == {"admin"}
Users == Customers \cup Admins
Products == {1, 2}
Price == [p \in Products |-> IF p = 1 THEN 250 * Rupee ELSE 250 * Rupee - Paisa]

CouponCode == "SAVE"
Statuses == {"placed", "packed", "shipped", "delivered", "cancelled", "returned"}
PaymentStatuses == {"pending", "paid", "failed", "refunded", "cancelled"}

\* Coupon rows an admin can store through CouponForm: discount_value >= 0,
\* min_purchase >= 0, max_discount >= 0 or empty, usage_limit >= 0 or empty.
CouponForm(type, value, minp, maxd, limit, from, until, active) ==
  [discount_type |-> type, discount_value |-> value, min_purchase |-> minp,
   max_discount |-> maxd, usage_limit |-> limit, valid_from |-> from,
   valid_until |-> until, is_active |-> active]

LimitedCoupon == CouponForm("fixed", 100 * Rupee, 250 * Rupee, Null, 1, 0, 0, TRUE)

CouponForms ==
  { LimitedCoupon,
    CouponForm("percentage", 50, 0, 100 * Rupee, Null, 0, MaxTime, TRUE),
    CouponForm("percentage", 150, 0, 1000 * Rupee, Null, 0, MaxTime, TRUE),
    CouponForm("fixed", 1000 * Rupee, 0, Null, Null, 0, MaxTime, TRUE),
    CouponForm("percentage", 10, 0, 0, Null, 0, MaxTime, TRUE),
    CouponForm("fixed", 50 * Rupee, 0, Null, 0, 0, MaxTime, TRUE),
    CouponForm("fixed", 100 * Rupee, 0, Null, 1, 0, MaxTime, FALSE) }

\* ------------------------------------------------------- pricing (pure)
\* round(x, 2) on an amount x held in 1/10000 rupee: to the nearest paisa,
\* ties to the even paisa.
Round2(x) ==
  LET q == x \div Paisa
      r == x % Paisa
  IN  IF 2 * r < Paisa THEN q * Paisa
      ELSE IF 2 * r > Paisa THEN (q + 1) * Paisa
      ELSE IF q % 2 = 0 THEN q * Paisa ELSE (q + 1) * Paisa

\* Priced lines that keep the requested quantity.
PricedItemsUnclamped(cart, stk, act) ==
  [p \in {q \in DOMAIN cart : act[q] /\ stk[q] > 0} |-> cart[p]]

\* cart_items, lines 241-251: the priced lines, quantity clamped to stock.
PricedItems(cart, stk, act) ==
  [p \in {q \in DOMAIN cart : act[q] /\ stk[q] > 0} |-> Min(cart[p], stk[p])]

Subtotal(items) ==
  SumOver([p \in DOMAIN items |-> items[p] * Price[p]], DOMAIN items)

Tax(subtotal) == Round2((subtotal * TaxRatePercent) \div 100)

\* A fee waived only above the threshold.
ShippingAbove(subtotal) ==
  IF subtotal > FreeShippingRupees * Rupee THEN 0 ELSE FlatShippingRupees * Rupee

\* cart_items, line 254.
Shipping(subtotal) ==
  IF subtotal >= FreeShippingRupees * Rupee THEN 0 ELSE FlatShippingRupees * Rupee

\* Python truthiness of a nullable number: None and 0 are false.
Truthy(n) == n /= Null /\ n /= 0

\* cart_items, lines 255-263.  code is the session's coupon_code, cpn the
\* Coupon row with that code (there is one coupon code in the model).
Discount(subtotal, code, cpn, t) ==
  IF code /= NoCode /\ code = CouponCode /\ cpn.is_active
     /\ cpn.valid_from <= t /\ t <= cpn.valid_until
  THEN IF cpn.discount_type = "percentage"
       THEN Min((subtotal \div 100) * cpn.discount_value,
                IF Truthy(cpn.max_discount) THEN cpn.max_discount ELSE subtotal)
       ELSE Min(cpn.discount_value, subtotal)
  ELSE 0

\* A total that forgets the shipping fee.
TotalWithoutShipping(subtotal, tax, shipping, discount) == subtotal + tax - discount

\* cart_items, line 264.
GrandTotal(subtotal, tax, shipping, discount) == subtotal + tax + shipping - discount

cart_items(cart, code, stk, act, cpn, t) ==
  LET items == PricedItems(cart, stk, act)
      subtotal == Subtotal(items)
      tax == Tax(subtotal)
      shipping == Shipping(subtotal)
      discount == Discount(subtotal, code, cpn, t)
  IN  [items |-> items, subtotal |-> subtotal, tax |-> tax, shipping |-> shipping,
       discount |-> discount, total |-> GrandTotal(subtotal, tax, shipping, discount)]

\* ------------------------------------------------------------------ state
VARIABLES
  stock,       \* Product.stock, per product
  sold_count,  \* Product.sold_count, per product
  is_active,   \* Product.is_active, per product
  coupon,      \* the Coupon row with code CouponCode: form fields and used_count
  orders,      \* the Order rows in id order, each with its OrderItems
  session,     \* per customer browser: session['cart'], session['coupon_code']
  req,         \* per user: the request in flight and what it has loaded
  now,         \* datetime.utcnow()
  initStock    \* history: the stock each product started with

vars == <<stock, sold_count, is_active, coupon, orders, session, req, now, initStock>>
db == <<stock, sold_count, is_active, coupon, orders>>

EmptyCart == [p \in {} |-> 0]
NoSnap == [items |-> EmptyCart, subtotal |-> 0, tax |-> 0, shipping |-> 0,
           discount |-> 0, total |-> 0]
Idle == [pc |-> "idle", order |-> 0, snap |-> NoSnap, stock_read |-> EmptyCart,
         sold_read |-> EmptyCart, used_read |-> Null, pay_read |-> "",
         status_read |-> "", form |-> "", clock_read |-> Null, draws |-> 0]

InFlight(u) == req[u].pc /= "idle"

\* The state after the catalogue and the coupon were entered: every product
\* active with the same stock, one coupon never used, no order, empty carts.
InitWith(forms) ==
  /\ \E n \in 1..MaxStock : stock = [p \in Products |-> n] /\ initStock = [p \in Products |-> n]
  /\ sold_count = [p \in Products |-> 0]
  /\ is_active = [p \in Products |-> TRUE]
  /\ \E f \in forms : coupon = [form |-> f, used_count |-> 0]
  /\ orders = <<>>
  /\ session = [u \in Customers |-> [cart |-> EmptyCart, coupon_code |-> NoCode]]
  /\ req = [u \in Users |-> Idle]
  /\ now = 0

Init == InitWith({LimitedCoupon})

\* ------------------------------------------------------------- cart routes
\* cart_add, lines 501-520.
cart_add(u, p, quantity) ==
  /\ ~InFlight(u)
  /\ IF ~is_active[p] \/ stock[p] <= 0
     THEN UNCHANGED session
     ELSE LET qty == Max(1, quantity)
              current_qty == IF p \in DOMAIN session[u].cart THEN session[u].cart[p] ELSE 0
              new_qty == Min(current_qty + qty, stock[p])
              cart == [q \in DOMAIN session[u].cart \cup {p} |->
                         IF q = p THEN new_qty ELSE session[u].cart[q]]
          IN  session' = [session EXCEPT ![u].cart = cart]
  /\ UNCHANGED <<db, req, now, initStock>>

CartForms == UNION {[S -> 1..MaxQty] : S \in SUBSET Products}

\* cart_update, lines 523-536: the cart is rebuilt from the submitted form.
cart_update(u, form) ==
  /\ ~InFlight(u)
  /\ session' = [session EXCEPT ![u].cart =
                   [p \in {q \in DOMAIN form : is_active[q]} |->
                      Min(Max(1, form[p]), stock[p])]]
  /\ UNCHANGED <<db, req, now, initStock>>

\* cart_remove, lines 539-545.
cart_remove(u, p) ==
  /\ ~InFlight(u)
  /\ session' = [session EXCEPT ![u].cart =
                   [q \in DOMAIN session[u].cart \ {p} |-> session[u].cart[q]]]
  /\ UNCHANGED <<db, req, now, initStock>>

\* The session's cart priced against the rows as they are now.
CartNow(u) ==
  cart_items(session[u].cart, session[u].coupon_code, stock, is_active, coupon.form, now)

\* cart_coupon, lines 548-572, for a submitted code already stripped and
\* upper-cased.  The first failing check decides the message flashed.
CouponVerdict(code, cpn, used, subtotal, t) ==
  IF ~(code = CouponCode /\ cpn.is_active) THEN "NotFound"
  ELSE IF cpn.valid_from > t \/ cpn.valid_until < t THEN "Expired"
  ELSE IF Truthy(cpn.usage_limit) /\ used >= cpn.usage_limit THEN "UsageLimitReached"
  ELSE IF subtotal < cpn.min_purchase THEN "MinimumPurchaseNotMet"
  ELSE "ok"

\* A validation that counts the usage when it accepts the code.
cart_coupon_counting(u, code) ==
  /\ ~InFlight(u)
  /\ LET ok == CouponVerdict(code, coupon.form, coupon.used_count,
                             CartNow(u).subtotal, now) = "ok"
     IN  /\ session' = IF ok THEN [session EXCEPT ![u].coupon_code = code] ELSE session
         /\ coupon' = IF ok THEN [coupon EXCEPT !.used_count = @ + 1] ELSE coupon
  /\ UNCHANGED <<stock, sold_count, is_active, orders, req, now, initStock>>

cart_coupon(u, code) ==
  /\ ~InFlight(u)
  /\ session' = IF CouponVerdict(code, coupon.form, coupon.used_count,
                                 CartNow(u).subtotal, now) = "ok"
                THEN [session EXCEPT ![u].coupon_code = code]
                ELSE session
  /\ UNCHANGED <<db, req, now, initStock>>

\* cart_coupon_remove, lines 575-579.
cart_coupon_remove(u) ==
  /\ ~InFlight(u)
  /\ session' = [session EXCEPT ![u].coupon_code = NoCode]
  /\ UNCHANGED <<db, req, now, initStock>>

\* ---------------------------------------------------------------- checkout
CheckoutsInFlight == Cardinality({u \in Users : req[u].pc = "checkout"})

\* checkout, lines 614-649 of a POST whose form validates: cart_items() loads
\* the Product rows and, when the session's code names an active coupon, the
\* Coupon row (line 258); these loaded attribute values stay in the ORM
\* session for the rest of the request.  The user has a saved address.
\* draws counts the times the request generates the order's identifiers: the
\* Order constructor (lines 653, 664) is evaluated once and the handler has
\* no loop around it.
CheckoutBegin(u) ==
  /\ ~InFlight(u)
  /\ LET c == CartNow(u)
     IN  IF DOMAIN c.items = {}
         THEN UNCHANGED req
         ELSE req' = [req EXCEPT ![u] =
                   [pc |-> "checkout", order |-> 0, snap |-> c,
                    stock_read |-> [p \in DOMAIN c.items |-> stock[p]],
                    sold_read |-> [p \in DOMAIN c.items |-> sold_count[p]],
                    used_read |-> IF session[u].coupon_code = CouponCode
                                     /\ coupon.form.is_active
                                  THEN coupon.used_count ELSE Null,
                    pay_read |-> "", status_read |-> "", form |-> "",
                    clock_read |-> now, draws |-> 1]]
  /\ UNCHANGED <<db, session, now, initStock>>

\* generate_order_number / generate_tracking_code, lines 166-171: a draw is
\* either equal to the identifier of an order already stored (1..Len) or
\* new; a new identifier is written as Len + 1.
IdDraws == 1..(Len(orders) + 1)

\* A decrement done by the database on the stored value, with no floor.
DecrementedInPlace(stored, loaded, quantity) == stored - quantity

\* Line 674: the stock written for a line.  product.stock is the attribute
\* value the request loaded in cart_items(); the value stored by now takes
\* no part.
DecrementedStock(stored, loaded, quantity) == Max(0, loaded - quantity)

\* Lines 685-690: the used_count written, from the value the request holds
\* (loaded) or, when the Coupon row was not loaded before, the stored one.
IncrementedUsedCount(loaded, stored) ==
  (IF loaded /= Null THEN loaded ELSE stored) + 1

NewOrder(u, c, code, order_number, tracking_code) ==
  [user_id |-> u, order_number |-> order_number, status |-> "placed",
   payment_status |-> "pending", payment_id |-> "", subtotal |-> c.subtotal,
   tax |-> c.tax, shipping |-> c.shipping, discount |-> c.discount,
   coupon_code |-> code, total |-> c.total, tracking_code |-> tracking_code,
   delivered_at |-> Null, items |-> c.items, restores |-> 0]

\* The flush at line 669 raises IntegrityError on a duplicate of a unique
\* column (models.py lines 137, 149).
Duplicate(order_number, tracking_code) ==
  \E i \in 1..Len(orders) : \/ orders[i].order_number = order_number
                            \/ orders[i].tracking_code = tracking_code

\* checkout, lines 650-697: from db.session.flush() (the INSERT opens the
\* write transaction) to db.session.commit().
CheckoutCommit(u, order_number, tracking_code) ==
  /\ req[u].pc = "checkout"
  /\ req' = [req EXCEPT ![u] = Idle]
  /\ IF Duplicate(order_number, tracking_code)
     THEN UNCHANGED <<db, session>>
     ELSE LET c == req[u].snap
              code == session[u].coupon_code
          IN  /\ orders' = Append(orders, NewOrder(u, c, code, order_number, tracking_code))
              /\ stock' = [p \in Products |->
                             IF p \in DOMAIN c.items
                             THEN DecrementedStock(stock[p], req[u].stock_read[p], c.items[p])
                             ELSE stock[p]]
              /\ sold_count' = [p \in Products |->
                                  IF p \in DOMAIN c.items
                                  THEN req[u].sold_read[p] + c.items[p]
                                  ELSE sold_count[p]]
              /\ coupon' = IF code /= NoCode /\ code = CouponCode
                           THEN [coupon EXCEPT !.used_count =
                                   IncrementedUsedCount(req[u].used_read, coupon.used_count)]
                           ELSE coupon
              /\ session' = [session EXCEPT ![u] = [cart |-> EmptyCart, coupon_code |-> NoCode]]
              /\ UNCHANGED is_active
  /\ UNCHANGED <<now, initStock>>

\* ------------------------------------------------------------ order_cancel
CancelsInFlight(o) == Cardinality({u \in Users : req[u].pc = "cancel" /\ req[u].order = o})

\* The guards with the status test left out.
CancelOutcomeAnyStatus(u, o) ==
  IF orders[o].user_id /= u /\ u \notin Admins THEN "Unauthorized" ELSE "ok"

\* order_cancel, lines 723 and 727: the two guards.
CancelOutcome(u, o) ==
  IF orders[o].user_id /= u /\ u \notin Admins THEN "Unauthorized"
  ELSE IF orders[o].status \notin {"placed", "packed"} THEN "NotCancellable"
  ELSE "ok"

\* order_cancel, lines 722-729: the Order row is loaded and the guards are
\* evaluated on the loaded values.
CancelBegin(u, o) ==
  /\ ~InFlight(u)
  /\ o \in 1..Len(orders)
  /\ IF CancelOutcome(u, o) = "ok"
     THEN req' = [req EXCEPT ![u] =
                    [Idle EXCEPT !.pc = "cancel", !.order = o,
                                 !.pay_read = orders[o].payment_status]]
     ELSE UNCHANGED req
  /\ UNCHANGED <<db, session, now, initStock>>

\* A restore of one unit whatever the line's quantity.
RestoredOneUnit(current, quantity) == current + 1

\* Line 738: the stock written for a line of the cancelled order.
RestoredStock(current, quantity) == current + quantity

\* A cancel that never refunds.
CancelUpdateWithoutRefund(stored, pay_read) ==
  [stored EXCEPT !.status = "cancelled", !.payment_status = "cancelled"]

\* Lines 731-732: the Order row after the UPDATE. The payment status is
\* computed from the loaded value, and the UPDATE carries a column only when
\* the value assigned differs from the value loaded.
CancelUpdate(stored, pay_read) ==
  LET payment_status == IF pay_read = "paid" THEN "refunded" ELSE "cancelled"
  IN  [stored EXCEPT !.status = "cancelled",
                     !.payment_status = IF payment_status /= pay_read
                                        THEN payment_status ELSE @]

\* order_cancel, lines 731-742: the first query after the assignments
\* (order.items) flushes the UPDATE of the Order row and so opens the write
\* transaction; the Product rows are read inside it and written at commit.
CancelCommit(u) ==
  /\ req[u].pc = "cancel"
  /\ LET o == req[u].order
     IN  /\ orders' = [orders EXCEPT ![o] =
                         [CancelUpdate(@, req[u].pay_read) EXCEPT !.restores = @ + 1]]
         /\ stock' = [p \in Products |->
                        IF p \in DOMAIN orders[o].items
                        THEN RestoredStock(stock[p], orders[o].items[p])
                        ELSE stock[p]]
  /\ req' = [req EXCEPT ![u] = Idle]
  /\ UNCHANGED <<sold_count, is_active, coupon, session, now, initStock>>

\* ------------------------------------------------------------ admin routes
\* admin_orders POST, lines 1054-1057, behind admin_required (lines 219-226):
\* a user who is not an admin is redirected; for an admin the Order row is
\* loaded.
AdminBegin(u, o, status) ==
  /\ ~InFlight(u)
  /\ o \in 1..Len(orders)
  /\ IF u \notin Admins
     THEN UNCHANGED req
     ELSE req' = [req EXCEPT ![u] =
                    [Idle EXCEPT !.pc = "admin", !.order = o, !.form = status,
                                 !.status_read = orders[o].status,
                                 !.pay_read = orders[o].payment_status]]
  /\ UNCHANGED <<db, session, now, initStock>>

\* A status change that leaves the payment status of a refunded or cancelled
\* payment.
AdminUpdateKeepingRefund(stored, status_read, pay_read, status, tracking_code, t) ==
  [stored EXCEPT !.status = IF status /= status_read THEN status ELSE @,
                 !.tracking_code = IF status = "shipped" /\ @ = Null
                                   THEN tracking_code ELSE @,
                 !.delivered_at = IF status = "delivered" THEN t ELSE @,
                 !.payment_status = IF status = "delivered" /\ pay_read /= "paid"
                                       /\ pay_read \notin {"refunded", "cancelled"}
                                    THEN "paid" ELSE @]

\* Lines 1059-1069: the Order row after the UPDATE. The UPDATE carries a
\* column only when the value assigned differs from the value loaded; the
\* time stamp always differs.
AdminUpdate(stored, status_read, pay_read, status, tracking_code, t) ==
  [stored EXCEPT !.status = IF status /= status_read THEN status ELSE @,
                 !.tracking_code = IF status = "shipped" /\ @ = Null
                                   THEN tracking_code ELSE @,
                 !.delivered_at = IF status = "delivered" THEN t ELSE @,
                 !.payment_status = IF status = "delivered" /\ pay_read /= "paid"
                                    THEN "paid" ELSE @]

\* admin_orders POST, lines 1058-1072: the assignments and the commit.
AdminCommit(u, tracking_code) ==
  /\ req[u].pc = "admin"
  /\ orders' = [orders EXCEPT ![req[u].order] =
                  AdminUpdate(@, req[u].status_read, req[u].pay_read,
                              req[u].form, tracking_code, now)]
  /\ req' = [req EXCEPT ![u] = Idle]
  /\ UNCHANGED <<stock, sold_count, is_active, coupon, session, now, initStock>>

\* admin_coupons POST, lines 1207-1233, editing the coupon: populate_obj
\* stores every field of the form and leaves used_count.
admin_coupons(u, form) ==
  /\ ~InFlight(u)
  /\ u \in Admins
  /\ coupon' = [coupon EXCEPT !.form = form]
  /\ UNCHANGED <<stock, sold_count, is_active, orders, session, req, now, initStock>>

\* admin_products POST, lines 972-1020, editing a product with the form as
\* rendered except for the Active box.
admin_products(u, p, active) ==
  /\ ~InFlight(u)
  /\ u \in Admins
  /\ is_active' = [is_active EXCEPT ![p] = active]
  /\ UNCHANGED <<stock, sold_count, coupon, orders, session, req, now, initStock>>

\* -------------------------------------------------------- payment callback
PaymentIds == {"payA"}

\* razorpay_callback, lines 1412-1430, behind login_required only.
\* A callback that also records a notification that is not a success.
CallbackRecordingFailure(ords, order_id, payment_id, status) ==
  [i \in 1..Len(ords) |->
     IF ords[i].order_number = order_id
     THEN [ords[i] EXCEPT !.payment_status = IF status = "success" THEN "paid" ELSE "failed",
                          !.payment_id = payment_id]
     ELSE ords[i]]

\* Lines 1422-1427: the Order rows after the notification is handled.
CallbackResult(ords, order_id, payment_id, status) ==
  IF status = "success" /\ \E i \in 1..Len(ords) : ords[i].order_number = order_id
  THEN LET i == CHOOSE j \in 1..Len(ords) : ords[j].order_number = order_id
       IN  [ords EXCEPT ![i] =
              [@ EXCEPT !.payment_status = "paid", !.payment_id = payment_id]]
  ELSE ords

razorpay_callback(u, order_id, payment_id, status) ==
  /\ ~InFlight(u)
  /\ orders' = CallbackResult(orders, order_id, payment_id, status)
  /\ UNCHANGED <<stock, sold_count, is_active, coupon, session, req, now, initStock>>

\* ---------------------------------------------------------------- the clock
Tick ==
  /\ now < MaxTime
  /\ now' = now + 1
  /\ UNCHANGED <<db, session, req, initStock>>

\* --------------------------------------------------------------------- next
\* Bounds of the explored runs: the quantity of a cart line, the number of
\* orders placed, and the number of times one order is cancelled.
CartRoom(u, p, q) ==
  (IF p \in DOMAIN session[u].cart THEN session[u].cart[p] ELSE 0) + q <= MaxQty
OrderRoom == Len(orders) + CheckoutsInFlight < MaxOrders
CancelRoom(o) == o <= Len(orders) /\ orders[o].restores + CancelsInFlight(o) < MaxRestores

Carts(C, P) ==
  \/ \E u \in C, p \in P, q \in 1..MaxQty : CartRoom(u, p, q) /\ cart_add(u, p, q)
  \/ \E u \in C, p \in P : cart_remove(u, p)
  \/ \E u \in C, code \in {CouponCode, "NOPE"} : cart_coupon(u, code)
  \/ \E u \in C : cart_coupon_remove(u)

Shop(C, P) ==
  \/ Carts(C, P)
  \/ \E u \in C : OrderRoom /\ CheckoutBegin(u)
  \/ \E u \in C : \E n \in IdDraws, t \in IdDraws : CheckoutCommit(u, n, t)

Cancels ==
  \/ \E u \in Users, o \in 1..MaxOrders : CancelRoom(o) /\ CancelBegin(u, o)
  \/ \E u \in Users : CancelCommit(u)

Back ==
  \/ \E u \in Users, o \in 1..MaxOrders, s \in Statuses \cup {"bogus"} :
       AdminBegin(u, o, s)
  \/ \E u \in Users, n \in 1..(MaxOrders + 1), pid \in PaymentIds,
        s \in {"success", "failure"} : razorpay_callback(u, n, pid, s)

\* Spec: the two customers shop for product 1 and check out concurrently,
\* any user's cancel requests interleave with them, and the admin ticks and
\* unticks the product's Active box.
Next ==
  \/ Shop(Customers, {1})
  \/ Cancels
  \/ \E u \in Admins, a \in BOOLEAN : admin_products(u, 1, a)
  \/ Tick

Spec == Init /\ [][Next]_vars

\* PricingSpec: one customer, both products, any coupon an admin can store
\* and edit, the product's Active box, the clock; the customer places one
\* order and goes on filling a cart.
PricingInit == InitWith(CouponForms)

PricingNext ==
  \/ Carts({"u1"}, Products)
  \/ orders = <<>> /\ CheckoutBegin("u1")
  \/ \E n \in IdDraws, t \in IdDraws : CheckoutCommit("u1", n, t)
  \/ \E f \in CartForms : cart_update("u1", f)
  \/ \E u \in Admins, f \in CouponForms : admin_coupons(u, f)
  \/ \E u \in Admins, p \in Products, a \in BOOLEAN : admin_products(u, p, a)
  \/ Tick

PricingSpec == PricingInit /\ [][PricingNext]_vars

\* OrderSpec: customer u1 fills a cart, may apply the coupon and places one
\* order; cancel requests, admin status changes and payment callbacks of all
\* users then interleave.
NoOrderYet == orders = <<>> /\ CheckoutsInFlight = 0

OrderRequests ==
  \/ \E p \in Products, q \in 1..MaxQty :
       NoOrderYet /\ CartRoom("u1", p, q) /\ cart_add("u1", p, q)
  \/ NoOrderYet /\ cart_coupon("u1", CouponCode)
  \/ NoOrderYet /\ CheckoutBegin("u1")
  \/ \E u \in Users, o \in 1..MaxOrders : CancelRoom(o) /\ CancelBegin(u, o)
  \/ Back
  \/ Tick

OrderCommits ==
  \/ \E n \in IdDraws, t \in IdDraws : CheckoutCommit("u1", n, t)
  \/ \E u \in Users : CancelCommit(u)
  \/ \E u \in Admins :
       \E t \in IF req[u].form = "shipped" /\ req[u].order \in 1..Len(orders)
                    /\ orders[req[u].order].tracking_code = Null
               THEN IdDraws ELSE {Null} : AdminCommit(u, t)

OrderNext == OrderRequests \/ OrderCommits

OrderSpec == Init /\ [][OrderNext]_vars

\* OrderSeqSpec: the same requests served one at a time, each to completion.
NoneInFlight == \A u \in Users : ~InFlight(u)

OrderSeqNext == (NoneInFlight /\ OrderRequests) \/ OrderCommits

OrderSeqSpec == Init /\ [][OrderSeqNext]_vars

\* =================================================================== claims
QtyOrdered(p) ==
  SumOver([i \in 1..Len(orders) |->
             IF p \in DOMAIN orders[i].items THEN orders[i].items[p] ELSE 0],
          1..Len(orders))

NeverCancelled == \A i \in 1..Len(orders) : orders[i].restores = 0

\* The step in which user u's checkout stores its order.
CheckoutStored(u) ==
  req[u].pc = "checkout" /\ req'[u].pc = "idle" /\ Len(orders') = Len(orders) + 1

\* The step in which user u's cancel request commits.
CancelCommitted(u) == req[u].pc = "cancel" /\ req'[u].pc = "idle"

\* The step in which user u's cancel request passes its guards.
CancelAccepted(u) == req[u].pc = "idle" /\ req'[u].pc = "cancel"

\* C1: with no cancellation, the quantities of a product recorded in the
\* stored orders never sum to more than the product's initial stock (a
\* checkout that would overdraw stores no order).
C1_NoOversell ==
  NeverCancelled => \A p \in Products : QtyOrdered(p) <= initStock[p]

\* C2: in every reachable state every product's stock is an integer >= 0.
C2_StockNonNegative == \A p \in Products : stock[p] \in Nat

C2_Witness == stock[1] = 0 /\ QtyOrdered(1) > initStock[1]

\* C3: a checkout whose inventory step must fail for some line (the line's
\* quantity exceeds the product's stock when the step runs) leaves no Order,
\* no stock or sold_count change and no coupon usage.
C3_FailedCheckoutChangesNothing ==
  [][\A u \in Customers :
       ( /\ req[u].pc = "checkout" /\ req'[u].pc = "idle"
         /\ \E p \in DOMAIN req[u].snap.items : req[u].snap.items[p] > stock[p] )
       => UNCHANGED <<orders, stock, sold_count, coupon>>]_vars

\* C4: every totals tuple cart_items returns and every stored Order satisfy
\* total = subtotal + tax + shipping - discount.
TotalsAddUp(t) == t.total = t.subtotal + t.tax + t.shipping - t.discount

C4_TotalInvariant ==
  /\ \A u \in Customers : TotalsAddUp(CartNow(u))
  /\ \A u \in Users : req[u].pc = "checkout" => TotalsAddUp(req[u].snap)
  /\ \A i \in 1..Len(orders) : TotalsAddUp(orders[i])

C4_Witness ==
  \E i \in 1..Len(orders) :
    /\ orders[i].status = "delivered" /\ orders[i].restores = 1
    /\ orders[i].payment_id /= "" /\ orders[i].discount > 0
    /\ orders[i].shipping > 0 /\ Cardinality(DOMAIN orders[i].items) = 2

\* C5: the discount cart_items computes, and the one stored on an order, is
\* between 0 and the subtotal for every coupon an admin can store.
DiscountCapped(t) == 0 <= t.discount /\ t.discount <= t.subtotal

C5_DiscountWithinSubtotal ==
  /\ \A u \in Customers : DiscountCapped(CartNow(u))
  /\ \A i \in 1..Len(orders) : DiscountCapped(orders[i])

\* C6: a coupon whose usage_limit is set never has used_count above it.
C6_UsageLimitRespected ==
  coupon.form.usage_limit /= Null => coupon.used_count <= coupon.form.usage_limit

\* C7: a checkout whose session coupon fails one of the four validation rules
\* against the rows as they are when the order is stored (and the clock the
\* request read) stores the order with discount 0.
C7_CouponRevalidatedAtCommit ==
  [][\A u \in Customers :
       ( /\ CheckoutStored(u)
         /\ CouponVerdict(session[u].coupon_code, coupon.form, coupon.used_count,
                          req[u].snap.subtotal, req[u].clock_read) /= "ok" )
       => orders'[Len(orders')].discount = 0]_vars

\* C8: a cancel request passes its guards, and later changes the order and
\* the stock, only when the order's status is placed or packed and the actor
\* is the owner or an admin; a request that does not pass them takes no step,
\* so it leaves status, payment_status and every stock as they were.
MayCancel(u, o) ==
  /\ orders[o].status \in {"placed", "packed"}
  /\ (orders[o].user_id = u \/ u \in Admins)

C8_CancelOnlyWhenAllowed ==
  [][\A u \in Users :
       /\ CancelAccepted(u) => MayCancel(u, req'[u].order)
       /\ CancelCommitted(u) => MayCancel(u, req[u].order)]_vars

C8_Witness ==
  \E i \in 1..Len(orders) : orders[i].status = "shipped" /\ orders[i].restores = 1

\* C9: a cancel adds exactly each line's quantity to that product's stock,
\* and no cancel request is accepted on an order whose status is cancelled.
C9_CancelRestoresOnce ==
  [][\A u \in Users :
       /\ CancelCommitted(u) =>
            \A p \in Products :
              stock'[p] = stock[p] + (IF p \in DOMAIN orders[req[u].order].items
                                      THEN orders[req[u].order].items[p] ELSE 0)
       /\ CancelAccepted(u) => orders[req'[u].order].status /= "cancelled"]_vars

C9_Witness ==
  \E i \in 1..Len(orders) :
    /\ orders[i].status = "cancelled" /\ orders[i].restores = 1
    /\ DOMAIN orders[i].items = Products
    /\ \E p \in Products : orders[i].items[p] = 2
    /\ stock = initStock

\* C10: a cancel commits, and restores the stock, only if the order's status
\* still allows cancellation when it commits.
C10_GuardHoldsAtCommit ==
  [][\A u \in Users :
       CancelCommitted(u) => orders[req[u].order].status \in {"placed", "packed"}]_vars

\* C11: every change of an order's status follows an edge of the lifecycle
\* placed -> packed -> shipped -> delivered, placed|packed -> cancelled,
\* any -> returned (the reading that allows most: returned is reachable from
\* every other status).
LifecycleEdge(from, to) ==
  \/ <<from, to>> \in {<<"placed", "packed">>, <<"packed", "shipped">>,
                       <<"shipped", "delivered">>, <<"placed", "cancelled">>,
                       <<"packed", "cancelled">>}
  \/ to = "returned"

C11_StatusFollowsLifecycle ==
  [][\A o \in 1..Len(orders) :
       orders'[o].status /= orders[o].status
         => LifecycleEdge(orders[o].status, orders'[o].status)]_vars

\* C12: handling the same success notification twice leaves the orders as
\* handling it once does, and a notification that is not a success, or that
\* names no stored order number, leaves every order as it was.
C12_CallbackIdempotent ==
  \A n \in 1..(MaxOrders + 1), pid \in PaymentIds \cup {"payB"},
     s \in {"success", "failure"} :
    LET once == CallbackResult(orders, n, pid, s)
    IN  /\ CallbackResult(once, n, pid, s) = once
        /\ (s /= "success" \/ ~(\E i \in 1..Len(orders) : orders[i].order_number = n))
             => once = orders

C12_Witness ==
  \E i \in 1..Len(orders) :
    /\ orders[i].payment_id \in PaymentIds
    /\ orders[i].payment_status = "paid"
    /\ orders[i].status = "placed"

\* C13: a coupon validation (cart_coupon) changes no persisted row: a step
\* that changes a session's coupon_code while the user's request position
\* stays the same leaves every stock, the coupon's used_count and every order
\* as they were.  A rejected validation takes no step, and the totals preview
\* is the function cart_items of the rows, which writes nothing.
C13_ValidationChangesNoRow ==
  [][\A u \in Customers :
       (session'[u].coupon_code /= session[u].coupon_code /\ req'[u] = req[u])
         => UNCHANGED db]_vars

C13_Witness ==
  \E u \in Customers :
    /\ session[u].coupon_code = CouponCode
    /\ coupon.used_count = 1
    /\ Len(orders) = 1 /\ orders[1].user_id /= u

\* C14: validation reports the first failing check in the order NotFound
\* (missing or inactive), Expired (now outside the window), UsageLimitReached
\* (usage_limit set and used_count >= usage_limit), MinimumPurchaseNotMet
\* (subtotal < min_purchase), and accepts only when all four pass.
FirstFailingCheck(code, cpn, used, subtotal, t) ==
  IF code /= CouponCode \/ ~cpn.is_active THEN "NotFound"
  ELSE IF t < cpn.valid_from \/ t > cpn.valid_until THEN "Expired"
  ELSE IF cpn.usage_limit /= Null /\ used >= cpn.usage_limit THEN "UsageLimitReached"
  ELSE IF subtotal < cpn.min_purchase THEN "MinimumPurchaseNotMet"
  ELSE "ok"

C14_ValidationOrder ==
  \A u \in Customers, code \in {CouponCode, "NOPE"} :
    CouponVerdict(code, coupon.form, coupon.used_count, CartNow(u).subtotal, now)
      = FirstFailingCheck(code, coupon.form, coupon.used_count, CartNow(u).subtotal, now)

\* C15: an active coupon inside its window whose usage_limit is set (0
\* included) and whose used_count has reached it is rejected with
\* UsageLimitReached whatever the subtotal.
C15_UsageLimitRejects ==
  ( /\ coupon.form.is_active
    /\ coupon.form.valid_from <= now /\ now <= coupon.form.valid_until
    /\ coupon.form.usage_limit /= Null
    /\ coupon.used_count >= coupon.form.usage_limit )
  => \A subtotal \in {0, CartNow("u1").subtotal, 1000 * Rupee} :
       CouponVerdict(CouponCode, coupon.form, coupon.used_count, subtotal, now)
         = "UsageLimitReached"

\* C16: for a session coupon that passes validation the discount of the
\* totals is min(subtotal * discount_value / 100, max_discount) for a
\* percentage coupon with max_discount set (0 included),
\* min(subtotal * discount_value / 100, subtotal) with max_discount null,
\* and min(discount_value, subtotal) for a fixed coupon.
ReferenceDiscount(subtotal, cpn) ==
  IF cpn.discount_type = "percentage"
  THEN Min((subtotal \div 100) * cpn.discount_value,
           IF cpn.max_discount /= Null THEN cpn.max_discount ELSE subtotal)
  ELSE Min(cpn.discount_value, subtotal)

C16_DiscountIsReference ==
  \A u \in Customers :
    ( /\ session[u].coupon_code = CouponCode
      /\ FirstFailingCheck(CouponCode, coupon.form, coupon.used_count,
                           CartNow(u).subtotal, now) = "ok" )
    => CartNow(u).discount = ReferenceDiscount(CartNow(u).subtotal, coupon.form)

\* C17: in every totals tuple (a cart priced now, the totals a checkout
\* holds, a stored order) shipping is 0 when subtotal >= 500.00 and 50.00
\* when subtotal < 500.00, whatever the discount.
ShippingByThreshold(t) ==
  t.shipping = (IF t.subtotal >= 500 * Rupee THEN 0 ELSE 50 * Rupee)

C18_DecrementExactOrFail ==
  [][\A u \in Customers :
       (req[u].pc = "checkout" /\ req'[u].pc = "idle")
       => \A p \in DOMAIN req[u].snap.items :
            LET qty == req[u].snap.items[p]
            IN  IF qty > stock[p]
                THEN stock'[p] = stock[p] /\ sold_count'[p] = sold_count[p]
                ELSE Len(orders') > Len(orders)
                       => /\ stock'[p] = stock[p] - qty
                          /\ sold_count'[p] = sold_count[p] + qty]_vars

\* C19 as stated: a cart line of an active product with stock > 0 is priced
\* with quantity min(requested, stock, 1); a line of an inactive product or
\* of one with stock 0 is not priced.
C19_ClampedToOne ==
  \A u \in Customers : \A p \in DOMAIN session[u].cart :
    IF is_active[p] /\ stock[p] > 0
    THEN /\ p \in DOMAIN CartNow(u).items
         /\ CartNow(u).items[p] = Min(Min(session[u].cart[p], stock[p]), 1)
    ELSE p \notin DOMAIN CartNow(u).items

\* C19 amended: the priced quantity is min(requested, stock); a line of an
\* inactive product or of one with stock 0 is not priced.
C19_ClampedToStock ==
  \A u \in Customers : \A p \in DOMAIN session[u].cart :
    IF is_active[p] /\ stock[p] > 0
    THEN /\ p \in DOMAIN CartNow(u).items
         /\ CartNow(u).items[p] = Min(session[u].cart[p], stock[p])
    ELSE p \notin DOMAIN CartNow(u).items

C19_Witness ==
  /\ 1 \in DOMAIN session["u1"].cart /\ session["u1"].cart[1] = 2
  /\ stock[1] = 1 /\ is_active[1]
  /\ 1 \in DOMAIN session["u2"].cart /\ session["u2"].cart[1] = 1
  /\ Len(orders) = 1

\* C20: a checkout ends without storing its order because of an identifier
\* collision only after it has generated identifiers more than once (it
\* regenerates and retries before giving up), and no two stored orders share
\* an order_number or a tracking_code.
C20_CollisionIsRetried ==
  [][/\ \A u \in Customers :
          (req[u].pc = "checkout" /\ req'[u].pc = "idle" /\ orders' = orders)
            => req[u].draws > 1
     /\ \A i, j \in 1..Len(orders') :
          i /= j => /\ orders'[i].order_number /= orders'[j].order_number
                    /\ orders'[i].tracking_code /= orders'[j].tracking_code]_vars

\* The step in which an admin's status change commits.
AdminCommitted(u) == req[u].pc = "admin" /\ req'[u].pc = "idle"

\* C21: a tracking code is generated only on the change into shipped: an
\* order is stored without one, a tracking code changes only from none and
\* only in a step that brings the order into shipped, and a tracking code
\* once set is never changed.
C21_TrackingOnlyAtShipped ==
  [][/\ \A u \in Customers :
          CheckoutStored(u) => orders'[Len(orders')].tracking_code = Null
     /\ \A o \in 1..Len(orders) :
          orders'[o].tracking_code /= orders[o].tracking_code
            => /\ orders[o].tracking_code = Null
               /\ orders[o].status /= "shipped"
               /\ orders'[o].status = "shipped"]_vars

\* C22: every stored order's status and payment status are values of their
\* enumerations, whatever status an admin_orders request submits.
C22_StatusesAreEnumerated ==
  \A o \in 1..Len(orders) :
    /\ orders[o].status \in Statuses
    /\ orders[o].payment_status \in PaymentStatuses

\* C23: a cancel that commits sets the order's status to cancelled, sets its
\* payment status to refunded if it was paid and to cancelled otherwise, adds
\* every line's quantity to that product's stock, and leaves sold_count, the
\* coupon and the order's monetary fields as they were.
C23_CancelEffect ==
  [][\A u \in Users :
       CancelCommitted(u) =>
         LET o == req[u].order
         IN  /\ orders'[o].status = "cancelled"
             /\ orders'[o].payment_status =
                  (IF orders[o].payment_status = "paid" THEN "refunded" ELSE "cancelled")
             /\ \A p \in Products :
                  stock'[p] - stock[p] = (IF p \in DOMAIN orders[o].items
                                          THEN orders[o].items[p] ELSE 0)
             /\ sold_count' = sold_count
             /\ coupon' = coupon
             /\ \A f \in {"subtotal", "tax", "shipping", "discount", "total"} :
                  orders'[o][f] = orders[o][f]]_vars

C23_Witness ==
  \E i \in 1..Len(orders) :
    /\ orders[i].status = "cancelled" /\ orders[i].payment_status = "refunded"
    /\ orders[i].restores = 1 /\ orders[i].discount > 0
    /\ sold_count[1] > 0

\* C24: an admin status change into delivered sets delivered_at to the
\* current time and the payment status to paid whatever they were; a change
\* into any other status leaves both; no status change alters any stock.
C24_DeliveredMarksPaid ==
  [][\A u \in Admins :
       AdminCommitted(u) =>
         LET o == req[u].order
         IN  /\ orders'[o].status = req[u].form
             /\ IF req[u].form = "delivered"
                THEN /\ orders'[o].delivered_at = now
                     /\ orders'[o].payment_status = "paid"
                ELSE /\ orders'[o].delivered_at = orders[o].delivered_at
                     /\ orders'[o].payment_status = orders[o].payment_status
             /\ stock' = stock]_vars

C24_Witness ==
  \E i \in 1..Len(orders) :
    /\ orders[i].status = "delivered" /\ orders[i].payment_status = "paid"
    /\ orders[i].payment_id = "" /\ orders[i].restores = 1
    /\ orders[i].delivered_at = MaxTime

\* C26: every order whose status is delivered is paid and has a delivery
\* time.
C26_DeliveredIsPaid ==
  \A o \in 1..Len(orders) :
    orders[o].status = "delivered"
      => orders[o].payment_status = "paid" /\ orders[o].delivered_at /= Null

\* C27: every order whose status is cancelled has payment status refunded or
\* cancelled.
C27_CancelledIsNotPaid ==
  \A o \in 1..Len(orders) :
    orders[o].status = "cancelled"
      => orders[o].payment_status \in {"refunded", "cancelled"}

\* The quantity of product p in the orders whose status is not cancelled.
QtyHeld(p) ==
  SumOver([i \in 1..Len(orders) |->
             IF p \in DOMAIN orders[i].items /\ orders[i].status /= "cancelled"
             THEN orders[i].items[p] ELSE 0],
          1..Len(orders))

\* C28: with requests served one at a time and no product edit, every
\* product's stock plus its quantity in the orders that are not cancelled
\* equals its initial stock.
C28_StockConserved ==
  \A p \in Products : stock[p] + QtyHeld(p) = initStock[p]

\* C29: over an order's lifetime the quantity added back to a product's
\* stock on its behalf (one line quantity per committed cancel) never exceeds
\* the line quantity its checkout took.
C29_RestoreBounded ==
  \A o \in 1..Len(orders) :
    \A p \in DOMAIN orders[o].items :
      orders[o].restores * orders[o].items[p] <= orders[o].items[p]

\* C25: a checkout that stores its order adds exactly 1 to the coupon's
\* used_count if the coupon determined the order's discount and leaves it
\* otherwise (no coupon in the session, or one that no longer passes
\* validation), and no other step changes used_count.
C25_UsedCountFollowsApplication ==
  [][/\ \A u \in Customers :
          CheckoutStored(u) =>
            coupon'.used_count = coupon.used_count
                                   + (IF orders'[Len(orders')].discount > 0 THEN 1 ELSE 0)
     /\ coupon'.used_count /= coupon.used_count
          => \E u \in Customers : CheckoutStored(u)]_vars

\* A logged-in user who is neither the owner of order o nor an admin.
Stranger(u, o) == u \notin Admins /\ orders[o].user_id /= u

\* C30: every request that a user who is neither the owner of an order nor
\* an admin can issue (order_cancel, admin_orders, the payment callback)
\* leaves that order's status, payment status and payment id as they were.
C30_StrangerChangesNothing ==
  [][\A u \in Users, o \in 1..Len(orders) :
       ( /\ Stranger(u, o)
         /\ \/ CancelBegin(u, o)
            \/ CancelCommit(u)
            \/ \E s \in Statuses \cup {"bogus"} : AdminBegin(u, o, s)
            \/ \E n \in 1..(MaxOrders + 1), pid \in PaymentIds,
                  s \in {"success", "failure"} : razorpay_callback(u, n, pid, s) )
       => /\ orders'[o].status = orders[o].status
          /\ orders'[o].payment_status = orders[o].payment_status
          /\ orders'[o].payment_id = orders[o].payment_id]_vars

====
